---------------------------- MODULE Spec2Model ----------------------------
(***************************************************************************)
(* Model of datastore.core.serialize (serializers, Stack, the serializer   *)
(* shim and its lazy query cursor) together with the Key and Datastore     *)
(* contracts the shim is used with.                                        *)
(*                                                                         *)
(* Python values are records [t, e, n, s]: t is the type tag, n the integer*)
(* payload, s the character payload (a sequence of one-character strings), *)
(* and e the element type of a one-entry dict {'value': x} (or the name of *)
(* the exception for a raised exception).                                  *)
(***************************************************************************)
EXTENDS Integers, Sequences, FiniteSets, TLC

(***************************************************************************)
(* Bounds of the model.                                                    *)
(***************************************************************************)
\* longest Stack of serializers that is built
MaxStack == 2
\* longest raw string a Key is constructed from
MaxRaw == 3
\* longest child name handed to Key.child
MaxName == 2

(***************************************************************************)
(* Python values.                                                          *)
(***************************************************************************)
None == [t |-> "none", e |-> "", n |-> 0, s |-> <<>>]

IntVal(i) == [t |-> "int", e |-> "", n |-> i, s |-> <<>>]

Str(cs) == [t |-> "str", e |-> "", n |-> 0, s |-> cs]

Bytes(cs) == [t |-> "bytes", e |-> "", n |-> 0, s |-> cs]

\* the dict {'value': x} for a scalar x
Dict(x) == [t |-> "dict", e |-> x.t, n |-> x.n, s |-> x.s]

DictItem(d) == [t |-> d.e, e |-> "", n |-> d.n, s |-> d.s]

\* the outcome "this call raised the exception `name`"
Raise(name) == [t |-> "raise", e |-> name, n |-> 0, s |-> <<>>]

IsRaise(v) == v.t = "raise"

(***************************************************************************)
(* Character-level helpers.                                                *)
(***************************************************************************)
Digits == <<"0", "1", "2", "3", "4", "5", "6", "7", "8", "9">>

IsDigit(c) == \E i \in 1..10 : Digits[i] = c

DigitVal(c) == (CHOOSE i \in 1..10 : Digits[i] = c) - 1

RECURSIVE DigitsOf(_)
DigitsOf(i) ==
  IF i < 10 THEN <<Digits[i + 1]>>
  ELSE DigitsOf(i \div 10) \o <<Digits[(i % 10) + 1]>>

RECURSIVE NatOf(_)
NatOf(cs) ==
  IF cs = <<>> THEN 0
  ELSE 10 * NatOf(SubSeq(cs, 1, Len(cs) - 1)) + DigitVal(cs[Len(cs)])

\* length of the longest prefix of cs made of digits
RECURSIVE DigitRun(_)
DigitRun(cs) ==
  IF cs = <<>> \/ ~IsDigit(Head(cs)) THEN 0 ELSE 1 + DigitRun(Tail(cs))

Drop(cs, k) == SubSeq(cs, k + 1, Len(cs))

StartsWith(cs, p) == Len(cs) >= Len(p) /\ SubSeq(cs, 1, Len(p)) = p

IsSpace(c) == c \in {" ", "\n"}

RECURSIVE SkipSpace(_)
SkipSpace(cs) ==
  IF cs # <<>> /\ IsSpace(Head(cs)) THEN SkipSpace(Tail(cs)) ELSE cs

(***************************************************************************)
(* json.dumps / json.loads on the modelled values.                         *)
(***************************************************************************)
\* the body of a JSON string literal: quote, backslash and newline are escaped
RECURSIVE JsonEscape(_)
JsonEscape(cs) ==
  IF cs = <<>> THEN <<>>
  ELSE (CASE Head(cs) \in {"\"", "\\"} -> <<"\\", Head(cs)>>
          [] Head(cs) = "\n" -> <<"\\", "n">>
          [] OTHER -> <<Head(cs)>>)
       \o JsonEscape(Tail(cs))

JsonScalar(v) ==
  CASE v.t = "none" -> <<"n", "u", "l", "l">>
    [] v.t = "int" -> DigitsOf(v.n)
    [] v.t = "str" -> <<"\"">> \o JsonEscape(v.s) \o <<"\"">>
    [] OTHER -> <<>>

JsonKey == <<"\"", "v", "a", "l", "u", "e", "\"">>

\* json.dumps(value, indent=indent): indent is "" (compact) or "1"
JsonDumps(v, indent) ==
  CASE v.t \in {"none", "int", "str"} -> Str(JsonScalar(v))
    [] v.t = "dict" ->
         IF indent = ""
         THEN Str(<<"{">> \o JsonKey \o <<":", " ">>
                  \o JsonScalar(DictItem(v)) \o <<"}">>)
         ELSE Str(<<"{", "\n", " ">> \o JsonKey \o <<":", " ">>
                  \o JsonScalar(DictItem(v)) \o <<"\n", "}">>)
    [] OTHER -> Raise("TypeError")

\* scans a string literal's body: [ok, s (decoded), rest (after the quote)]
RECURSIVE JsonScanString(_, _)
JsonScanString(cs, acc) ==
  IF cs = <<>> THEN [ok |-> FALSE, s |-> acc, rest |-> <<>>]
  ELSE IF Head(cs) = "\"" THEN [ok |-> TRUE, s |-> acc, rest |-> Tail(cs)]
  ELSE IF Head(cs) = "\\"
       THEN IF Len(cs) >= 2 /\ cs[2] \in {"\"", "\\"}
            THEN JsonScanString(Drop(cs, 2), Append(acc, cs[2]))
            ELSE IF Len(cs) >= 2 /\ cs[2] = "n"
            THEN JsonScanString(Drop(cs, 2), Append(acc, "\n"))
            ELSE [ok |-> FALSE, s |-> acc, rest |-> <<>>]
  ELSE IF Head(cs) = "\n" THEN [ok |-> FALSE, s |-> acc, rest |-> <<>>]
  ELSE JsonScanString(Tail(cs), Append(acc, Head(cs)))

JsonStringToken(r) == [ok |-> r.ok, v |-> Str(r.s), rest |-> r.rest]

\* a number token of k digits at the head of cs (no leading zero)
JsonNumberToken(cs, k) ==
  [ok |-> k = 1 \/ Head(cs) # "0",
   v |-> IntVal(NatOf(SubSeq(cs, 1, k))), rest |-> Drop(cs, k)]

\* decodes one scalar at the head of cs: [ok, v, rest]
JsonScanScalar(cs) ==
  IF cs = <<>> THEN [ok |-> FALSE, v |-> None, rest |-> <<>>]
  ELSE IF Head(cs) = "\""
       THEN JsonStringToken(JsonScanString(Tail(cs), <<>>))
  ELSE IF StartsWith(cs, <<"n", "u", "l", "l">>)
       THEN [ok |-> TRUE, v |-> None, rest |-> Drop(cs, 4)]
  ELSE IF IsDigit(Head(cs)) THEN JsonNumberToken(cs, DigitRun(cs))
  ELSE [ok |-> FALSE, v |-> None, rest |-> <<>>]

\* the object {"value": scalar}, read in four steps: the closing brace after
\* the item r, the item, the colon after the key, the key
JsonObjectEnd(r, d) ==
  [ok |-> r.ok /\ d # <<>> /\ Head(d) = "}",
   v |-> Dict(r.v), rest |-> IF d = <<>> THEN <<>> ELSE Tail(d)]

JsonObjectItem(r) == JsonObjectEnd(r, SkipSpace(r.rest))

JsonObjectColon(b) ==
  JsonObjectItem(JsonScanScalar(
    IF b # <<>> /\ Head(b) = ":" THEN SkipSpace(Tail(b)) ELSE <<>>))

JsonObjectKey(a) ==
  JsonObjectColon(
    IF StartsWith(a, JsonKey) THEN SkipSpace(Drop(a, Len(JsonKey))) ELSE <<>>)

\* decodes one value (a scalar or the object {"value": scalar})
JsonScanValue(cs) ==
  IF cs # <<>> /\ Head(cs) = "{" THEN JsonObjectKey(SkipSpace(Tail(cs)))
  ELSE JsonScanScalar(cs)

\* the whole document must be one value, surrounded by white space only
JsonDocument(r) ==
  IF r.ok /\ SkipSpace(r.rest) = <<>> THEN r.v ELSE Raise("JSONDecodeError")

JsonLoads(v) ==
  IF v.t \notin {"str", "bytes"} THEN Raise("TypeError")
  ELSE JsonDocument(JsonScanValue(SkipSpace(v.s)))

(***************************************************************************)
(* pickle.dumps / pickle.loads: an opaque, self-describing byte encoding.  *)
(***************************************************************************)
PickleScalar(v) ==
  CASE v.t = "none" -> <<"N">>
    [] v.t = "int" -> <<"I">> \o DigitsOf(v.n)
    [] v.t = "str" -> <<"S">> \o v.s
    [] v.t = "bytes" -> <<"B">> \o v.s
    [] OTHER -> <<>>

PickleDumps(v) ==
  IF v.t = "dict" THEN Bytes(<<"P", "D">> \o PickleScalar(DictItem(v)))
  ELSE Bytes(<<"P">> \o PickleScalar(v))

PickleScanScalar(cs) ==
  IF cs = <<>> THEN Raise("UnpicklingError")
  ELSE CASE Head(cs) = "N" /\ Len(cs) = 1 -> None
         [] Head(cs) = "I" /\ Len(cs) > 1 /\ DigitRun(Tail(cs)) = Len(cs) - 1
              -> IntVal(NatOf(Tail(cs)))
         [] Head(cs) = "S" -> Str(Tail(cs))
         [] Head(cs) = "B" -> Bytes(Tail(cs))
         [] OTHER -> Raise("UnpicklingError")

PickleDict(x) ==
  IF IsRaise(x) \/ x.t = "bytes" THEN Raise("UnpicklingError") ELSE Dict(x)

PickleLoads(v) ==
  IF v.t # "bytes" THEN Raise("TypeError")
  ELSE IF v.s = <<>> \/ Head(v.s) # "P" THEN Raise("UnpicklingError")
  ELSE IF Len(v.s) >= 2 /\ v.s[2] = "D"
       THEN PickleDict(PickleScanScalar(Drop(v.s, 2)))
  ELSE PickleScanScalar(Tail(v.s))

(***************************************************************************)
(* Serializers.  A serializer is any object with a dumps and a loads; it is*)
(* written [d |-> class whose dumps it has, l |-> class whose loads it has]*)
(* so that a serializer whose loads does not undo its dumps can be built.  *)
(***************************************************************************)
Codecs == {"NonSerializer", "json", "PrettyJSON", "pickle"}

CodecDumps(c, value) ==
  CASE c = "NonSerializer" -> value
    [] c = "json" -> JsonDumps(value, "")
    [] c = "PrettyJSON" -> JsonDumps(value, "1")
    [] c = "pickle" -> PickleDumps(value)

CodecLoads(c, value) ==
  CASE c = "NonSerializer" -> value
    [] c = "json" -> JsonLoads(value)
    [] c = "PrettyJSON" -> JsonLoads(value)
    [] c = "pickle" -> PickleLoads(value)

Ser(c) == [d |-> c, l |-> c]

\* the serializer objects of the model: the four classes, and two user
\* classes whose loads is not the inverse of their dumps
SerializerObjs ==
  {Ser(c) : c \in Codecs}
    \cup {[d |-> "json", l |-> "NonSerializer"], [d |-> "NonSerializer", l |-> "json"]}

\* Stack.loads with the serializers taken in list order, not reversed
RECURSIVE StackLoadsForward(_, _)
StackLoadsForward(items, value) ==
  IF items = <<>> \/ IsRaise(value) THEN value
  ELSE StackLoadsForward(Tail(items), CodecLoads(Head(items).l, value))

\* Stack.loads: for serializer in reversed(self): value = serializer.loads(value)
\* (an exception raised by a stage leaves the loop)
RECURSIVE StackLoads(_, _)
StackLoads(items, value) ==
  IF items = <<>> \/ IsRaise(value) THEN value
  ELSE StackLoads(SubSeq(items, 1, Len(items) - 1),
                  CodecLoads(items[Len(items)].l, value))

\* Stack.dumps: for serializer in self: value = serializer.dumps(value)
RECURSIVE StackDumps(_, _)
StackDumps(items, value) ==
  IF items = <<>> \/ IsRaise(value) THEN value
  ELSE StackDumps(Tail(items), CodecDumps(Head(items).d, value))

\* the serializer handed to the shim: None, one object, or a Stack
NoSerializer == [kind |-> "none", items |-> <<>>]

Obj(s) == [kind |-> "obj", items |-> <<s>>]

Stack(items) == [kind |-> "stack", items |-> items]

Dumps(ser, value) ==
  IF ser.kind = "stack" THEN StackDumps(ser.items, value)
  ELSE CodecDumps(ser.items[1].d, value)

Loads(ser, value) ==
  IF ser.kind = "stack" THEN StackLoads(ser.items, value)
  ELSE CodecLoads(ser.items[1].l, value)

\* Python truth value of a serializer argument: Stack is a list, so an empty
\* Stack is false; None is false; classes, modules and instances are true
Truthy(ser) ==
  CASE ser.kind = "none" -> FALSE
    [] ser.kind = "obj" -> TRUE
    [] ser.kind = "stack" -> Len(ser.items) > 0

default_serializer == Obj(Ser("json"))

(***************************************************************************)
(* Key: represented by its normalized string.                              *)
(***************************************************************************)
KeyChars == {"/", "a", "b"}

\* code point of a character, for string comparison
Ord(c) ==
  CASE c = "/" -> 47 [] c = ":" -> 58 [] c = "a" -> 97 [] c = "b" -> 98
    [] OTHER -> 0

\* str.split('/')
RECURSIVE SplitSlash(_)
SplitSlash(cs) ==
  IF \A i \in 1..Len(cs) : cs[i] # "/" THEN <<cs>>
  ELSE LET i == CHOOSE j \in 1..Len(cs) :
                  cs[j] = "/" /\ \A m \in 1..(j - 1) : cs[m] # "/"
       IN  <<SubSeq(cs, 1, i - 1)>> \o SplitSlash(Drop(cs, i))

\* '/'.join(parts)
RECURSIVE JoinSlash(_)
JoinSlash(parts) ==
  IF parts = <<>> THEN <<>>
  ELSE IF Len(parts) = 1 THEN parts[1]
  ELSE parts[1] \o <<"/">> \o JoinSlash(Tail(parts))

RECURSIVE NonEmpty(_)
NonEmpty(parts) ==
  IF parts = <<>> THEN <<>>
  ELSE (IF Head(parts) = <<>> THEN <<>> ELSE <<Head(parts)>>)
       \o NonEmpty(Tail(parts))

\* repeated separators collapse to one, a trailing separator is dropped
\* except for the root: the canonical form is /seg1/seg2/.../segN
remove_duplicate_slashes(cs) == <<"/">> \o JoinSlash(NonEmpty(SplitSlash(cs)))

Key(cs) == remove_duplicate_slashes(cs)

KeyList(k) == SplitSlash(k)

ValueError == <<"ValueError">>

\* all namespaces but the last; a string without separator has no parent
Parent(k) ==
  IF \E i \in 1..Len(k) : k[i] = "/"
  THEN Key(JoinSlash(SubSeq(KeyList(k), 1, Len(KeyList(k)) - 1)))
  ELSE ValueError

\* appends the namespace `other` (a name, or the string of another Key)
ChildWithoutSeparator(k, other) == Key(k \o other)

Child(k, other) == Key(k \o <<"/">> \o other)

IsAncestorOfNonStrict(k, other) == StartsWith(other, k)

IsAncestorOf(k, other) == StartsWith(other, k \o <<"/">>)

IsDescendantOf(k, other) == StartsWith(k, other \o <<"/">>)

RECURSIVE StrLess(_, _)
StrLess(a, b) ==
  IF b = <<>> THEN FALSE
  ELSE IF a = <<>> THEN TRUE
  ELSE IF Head(a) # Head(b) THEN Ord(Head(a)) < Ord(Head(b))
  ELSE StrLess(Tail(a), Tail(b))

RECURSIVE ListLess(_, _)
ListLess(a, b) ==
  IF b = <<>> THEN FALSE
  ELSE IF a = <<>> THEN TRUE
  ELSE IF Head(a) # Head(b) THEN StrLess(Head(a), Head(b))
  ELSE ListLess(Tail(a), Tail(b))

\* the total order of keys: segment-wise lexicographic
KeyLess(k1, k2) == ListLess(KeyList(k1), KeyList(k2))

RECURSIVE SeqsUpTo(_, _)
SeqsUpTo(S, k) ==
  IF k = 0 THEN {<<>>}
  ELSE LET shorter == SeqsUpTo(S, k - 1)
       IN  shorter \cup {Append(q, x) : q \in shorter, x \in S}

(***************************************************************************)
(* State.                                                                  *)
(***************************************************************************)
VARIABLES
  stack,          \* the serializers of the Stack under test
  stackIn,        \* the value last handed to Stack.dumps
  stackOut,       \* what Stack.dumps returned
  stackBack,      \* what Stack.loads returned for stackOut
  stackPc,        \* "new", "dumped" or "loaded"
  keyA,           \* a Key
  keyB,           \* the Key last derived from keyA, or a second Key
  keyName,        \* the name last handed to keyA.child
  keyOp,          \* how keyB was made: "new", "child", "parent", "other"
  shim,           \* the SerializerShimDatastore: construction outcome, serializer
  child,          \* the child datastore: key -> stored value, None when absent
  last,           \* the last call made on the shim and its outcome
  lastPut,        \* per key: the value of a completed shim put not yet superseded
  directTouched,  \* whether the child was written to directly, not via the shim
  shimTouched,    \* whether a shim has called the child datastore
  cursor          \* the cursor of the last shim query

vars == <<stack, stackIn, stackOut, stackBack, stackPc, keyA, keyB, keyName,
          keyOp, shim, child, last, lastPut, directTouched, shimTouched, cursor>>

stackVars == <<stack, stackIn, stackOut, stackBack, stackPc>>

keyVars == <<keyA, keyB, keyName, keyOp>>

shimVars == <<shim, child, last, lastPut, directTouched, shimTouched, cursor>>

(***************************************************************************)
(* Inputs.                                                                 *)
(***************************************************************************)
StackValues ==
  {None, IntVal(1), IntVal(12), Str(<<"a">>), Str(<<"a", "\"">>),
   Bytes(<<"a">>), Dict(IntVal(1)), Dict(Str(<<"S">>))}

Stacks == SeqsUpTo(SerializerObjs, MaxStack)

RawStrings == SeqsUpTo(KeyChars, MaxRaw)

ChildNames == SeqsUpTo(KeyChars, MaxName)

(***************************************************************************)
(* Stack operations.                                                       *)
(***************************************************************************)
StackNew(items) ==
  /\ stack' = items
  /\ stackPc' = "new"
  /\ stackIn' = None /\ stackOut' = None /\ stackBack' = None
  /\ UNCHANGED <<keyVars, shimVars>>

StackDumpsCall(value) ==
  /\ stackIn' = value
  /\ stackOut' = StackDumps(stack, value)
  /\ stackBack' = None
  /\ stackPc' = "dumped"
  /\ UNCHANGED <<stack, keyVars, shimVars>>

StackLoadsCall ==
  /\ stackPc = "dumped"
  /\ ~IsRaise(stackOut)
  /\ stackBack' = StackLoads(stack, stackOut)
  /\ stackPc' = "loaded"
  /\ UNCHANGED <<stack, stackIn, stackOut, keyVars, shimVars>>

(***************************************************************************)
(* Key operations.                                                         *)
(***************************************************************************)
KeyNew(raw) ==
  /\ keyA' = Key(raw)
  /\ keyB' = Key(raw)
  /\ keyName' = <<>>
  /\ keyOp' = "new"
  /\ UNCHANGED <<stackVars, shimVars>>

KeyChild(name) ==
  /\ keyB' = Child(keyA, name)
  /\ keyName' = name
  /\ keyOp' = "child"
  /\ UNCHANGED <<keyA, stackVars, shimVars>>

KeyParent ==
  /\ keyB' = Parent(keyA)
  /\ keyName' = <<>>
  /\ keyOp' = "parent"
  /\ UNCHANGED <<keyA, stackVars, shimVars>>

KeyOther(raw) ==
  /\ keyB' = Key(raw)
  /\ keyName' = <<>>
  /\ keyOp' = "other"
  /\ UNCHANGED <<keyA, stackVars, shimVars>>

(***************************************************************************)
(* The child datastore and the Shim base class: a map from keys to stored  *)
(* values; None stands for "absent".                                       *)
(***************************************************************************)
StoreKeys == {Key(<<"a">>), Key(<<"a", "/", "b">>)}

child_get(c, key) == c[key]

child_put(c, key, value) == [c EXCEPT ![key] = value]

child_delete(c, key) == [c EXCEPT ![key] = None]

child_contains(c, key) == c[key] # None

\* the values of the stored items, in key order, as a lazy sequence
child_query(c) ==
  LET present == {k \in StoreKeys : c[k] # None}
      RECURSIVE InOrder(_)
      InOrder(ks) ==
        IF ks = {} THEN <<>>
        ELSE LET k == CHOOSE x \in ks : \A y \in ks : y = x \/ KeyLess(x, y)
             IN  <<c[k]>> \o InOrder(ks \ {k})
  IN  InOrder(present)

\* ShimDatastore: every operation the shim does not override is delegated
delete(c, key) == child_delete(c, key)

contains(c, key) == child_contains(c, key)

(***************************************************************************)
(* SerializerShimDatastore.                                                *)
(***************************************************************************)
\* test = {'value': repr(self)}
SentinelTest == Dict(Str(<<"S">>))

\* if serializer: self.serializer = serializer   (else the class default)
EffectiveSerializer(ser) == IF Truthy(ser) THEN ser ELSE default_serializer

SelfTestSkipped(ser) == ""

\* assert self.serializer.loads(self.serializer.dumps(test)) == test
\* "" when construction succeeds, else the name of the exception raised

SelfTestVerdict(r) ==
  IF IsRaise(r) THEN r.e ELSE IF r = SentinelTest THEN "" ELSE "AssertionError"

SelfTestLoads(ser, d) == SelfTestVerdict(IF IsRaise(d) THEN d ELSE Loads(ser, d))

SelfTest(ser) == SelfTestLoads(ser, Dumps(ser, SentinelTest))

get_unguarded(ser, c, key) == Loads(ser, child_get(c, key))

get_raw(ser, c, key) == child_get(c, key)

\* value = child.get(key); loads(value) if value is not None else None
get(ser, c, key) ==
  LET value == child_get(c, key)
  IN  IF value # None THEN Loads(ser, value) ELSE None

\* self.child_datastore.put(key, value), not reached when dumps raised
put_forward(c, key, v) ==
  IF IsRaise(v) THEN [child |-> c, raised |-> v]
  ELSE [child |-> child_put(c, key, v), raised |-> None]

put_forward_swallow(c, key, v) ==
  IF IsRaise(v) THEN [child |-> child_put(c, key, None), raised |-> v]
  ELSE [child |-> child_put(c, key, v), raised |-> None]

put_unguarded(ser, c, key, value) == put_forward(c, key, Dumps(ser, value))

put_swallow(ser, c, key, value) ==
  put_forward_swallow(c, key, IF value # None THEN Dumps(ser, value) ELSE None)

\* value = dumps(value) if value is not None else None; child.put(key, value)
\* [child |-> the child afterwards, raised |-> the exception, None if none]
put(ser, c, key, value) ==
  put_forward(c, key, IF value # None THEN Dumps(ser, value) ELSE None)

NoCursor ==
  [state |-> "none", src |-> <<>>, delivered |-> <<>>, requested |-> 0,
   loads |-> 0, raised |-> ""]

query_eager(ser, c) ==
  [state |-> "open", src |-> child_query(c), delivered |-> <<>>,
   requested |-> 0, loads |-> Len(child_query(c)), raised |-> ""]

\* cursor = child.query(query); cursor._iterable = deserialized_gen(...)
\* src: the child's items not yet pulled; loads: calls of serializer.loads
query(ser, c) ==
  [state |-> "open", src |-> child_query(c), delivered |-> <<>>,
   requested |-> 0, loads |-> 0, raised |-> ""]

\* the cursor after loads(item) returned or raised r
yield(cur, r) ==
  IF IsRaise(r)
  THEN [cur EXCEPT !.state = "done", !.src = <<>>, !.requested = @ + 1,
                   !.loads = @ + 1, !.raised = r.e]
  ELSE [cur EXCEPT !.src = Tail(@), !.delivered = Append(@, r),
                   !.requested = @ + 1, !.loads = @ + 1]

\* one advance of deserialized_gen: pull one item, yield loads(item); an
\* exception out of loads ends the generator
deserialized_gen(ser, cur) ==
  IF cur.src = <<>>
  THEN [cur EXCEPT !.state = "done", !.requested = @ + 1]
  ELSE yield(cur, Loads(ser, Head(cur.src)))

Bool(b) == [t |-> "bool", e |-> "", n |-> IF b THEN 1 ELSE 0, s |-> <<>>]

Unset == [t |-> "unset", e |-> "", n |-> 0, s |-> <<>>]

Call(op, key, arg, res, was) ==
  [op |-> op, key |-> key, arg |-> arg, res |-> res, was |-> was]

\* the shim after __init__ ended with err ("" when it returned normally)
Constructed(ser, eff, err) ==
  /\ shim' = [state |-> IF err = "" THEN "ok" ELSE "failed",
              given |-> ser, serializer |-> eff, error |-> err]
  /\ last' = Call("init", <<>>, None,
                  IF err = "" THEN None ELSE Raise(err), FALSE)

ShimInit(ser) ==
  /\ shim.state # "ok"
  /\ Constructed(ser, EffectiveSerializer(ser),
                 SelfTest(EffectiveSerializer(ser)))
  /\ UNCHANGED <<child, lastPut, directTouched, shimTouched, cursor>>
  /\ UNCHANGED <<stackVars, keyVars>>

\* the state after put(key, value) ended with outcome r
PutDone(key, value, r) ==
  /\ child' = r.child
  /\ last' = Call("put", key, value, r.raised, child[key] # None)
  /\ lastPut' = IF IsRaise(r.raised) THEN lastPut
                ELSE [lastPut EXCEPT
                        ![key] = IF value = None THEN Unset ELSE value]
  /\ shimTouched' = (shimTouched \/ ~IsRaise(r.raised))

ShimPut(key, value) ==
  /\ shim.state = "ok"
  /\ PutDone(key, value, put(shim.serializer, child, key, value))
  /\ UNCHANGED <<shim, directTouched, cursor, stackVars, keyVars>>

ShimGet(key) ==
  /\ shim.state = "ok"
  /\ last' = Call("get", key, None, get(shim.serializer, child, key),
                  child[key] # None)
  /\ shimTouched' = TRUE
  /\ UNCHANGED <<shim, child, lastPut, directTouched, cursor>>
  /\ UNCHANGED <<stackVars, keyVars>>

ShimDelete(key) ==
  /\ shim.state = "ok"
  /\ child' = delete(child, key)
  /\ last' = Call("delete", key, None, None, child[key] # None)
  /\ lastPut' = [lastPut EXCEPT ![key] = Unset]
  /\ shimTouched' = TRUE
  /\ UNCHANGED <<shim, directTouched, cursor, stackVars, keyVars>>

ShimContains(key) ==
  /\ shim.state = "ok"
  /\ last' = Call("contains", key, None, Bool(contains(child, key)),
                  child[key] # None)
  /\ shimTouched' = TRUE
  /\ UNCHANGED <<shim, child, lastPut, directTouched, cursor>>
  /\ UNCHANGED <<stackVars, keyVars>>

ShimQuery ==
  /\ shim.state = "ok"
  /\ cursor' = query(shim.serializer, child)
  /\ last' = Call("query", <<>>, None, None, FALSE)
  /\ shimTouched' = TRUE
  /\ UNCHANGED <<shim, child, lastPut, directTouched, stackVars, keyVars>>

CursorNext ==
  /\ cursor.state = "open"
  /\ cursor' = deserialized_gen(shim.serializer, cursor)
  /\ UNCHANGED <<shim, child, last, lastPut, directTouched, shimTouched>>
  /\ UNCHANGED <<stackVars, keyVars>>

\* the child datastore used directly, behind the shim's back
ChildPut(key, value) ==
  /\ child' = child_put(child, key, value)
  /\ last' = Call("child.put", key, value, None, child[key] # None)
  /\ lastPut' = [lastPut EXCEPT ![key] = Unset]
  /\ directTouched' = TRUE
  /\ UNCHANGED <<shim, shimTouched, cursor, stackVars, keyVars>>

ChildDelete(key) ==
  /\ child' = child_delete(child, key)
  /\ last' = Call("child.delete", key, None, None, child[key] # None)
  /\ lastPut' = [lastPut EXCEPT ![key] = Unset]
  /\ directTouched' = TRUE
  /\ UNCHANGED <<shim, shimTouched, cursor, stackVars, keyVars>>

(***************************************************************************)
(* Inputs of the shim and specifications.                                  *)
(***************************************************************************)
ShimSerializers ==
  {NoSerializer} \cup {Obj(s) : s \in SerializerObjs}
    \cup {Stack(<<>>), Stack(<<Ser("json"), Ser("pickle")>>),
          Stack(<<Ser("pickle"), Ser("json")>>)}

ShimValues == {None, Str(<<"a">>), IntVal(1), Bytes(<<"a">>), Dict(IntVal(1))}

\* values written to the child directly: valid JSON, malformed, JSON null
DirectValues ==
  {Str(<<"\"", "a", "\"">>), Str(<<"x">>), Str(<<"n", "u", "l", "l">>)}

QueryValues == {Str(<<"a">>), Bytes(<<"a">>)}

QueryDirectValues == {Str(<<"x">>)}

Init ==
  /\ stack = <<>> /\ stackPc = "new"
  /\ stackIn = None /\ stackOut = None /\ stackBack = None
  /\ keyA = Key(<<>>) /\ keyB = Key(<<>>) /\ keyName = <<>> /\ keyOp = "new"
  /\ shim = [state |-> "none", given |-> NoSerializer,
             serializer |-> default_serializer, error |-> ""]
  /\ child = [k \in StoreKeys |-> None]
  /\ last = Call("", <<>>, None, None, FALSE)
  /\ lastPut = [k \in StoreKeys |-> Unset]
  /\ directTouched = FALSE
  /\ shimTouched = FALSE
  /\ cursor = NoCursor

NextStack ==
  \/ \E items \in Stacks : StackNew(items)
  \/ \E value \in StackValues : StackDumpsCall(value)
  \/ StackLoadsCall

NextKey ==
  \/ \E raw \in RawStrings : KeyNew(raw)
  \/ \E name \in ChildNames : KeyChild(name)
  \/ KeyParent
  \/ \E raw \in RawStrings : KeyOther(raw)

NextShim ==
  \/ \E ser \in ShimSerializers : ShimInit(ser)
  \/ \E key \in StoreKeys, value \in ShimValues : ShimPut(key, value)
  \/ \E key \in StoreKeys : ShimGet(key)
  \/ \E key \in StoreKeys : ShimDelete(key)
  \/ \E key \in StoreKeys : ShimContains(key)
  \/ \E key \in StoreKeys, value \in DirectValues : ChildPut(key, value)
  \/ \E key \in StoreKeys : ChildDelete(key)

NextQuery ==
  \/ \E ser \in ShimSerializers : ShimInit(ser)
  \/ \E key \in StoreKeys, value \in QueryValues : ShimPut(key, value)
  \/ \E key \in StoreKeys : ShimGet(key)
  \/ \E key \in StoreKeys, value \in QueryDirectValues : ChildPut(key, value)
  \/ ShimQuery
  \/ CursorNext

SpecStack == Init /\ [][NextStack]_vars

SpecKey == Init /\ [][NextKey]_vars

SpecShim == Init /\ [][NextShim]_vars

SpecQuery == Init /\ [][NextQuery]_vars

(***************************************************************************)
(* Properties.                                                             *)
(***************************************************************************)
\* the serializer J the shim was constructed with (the default when None)
GivenSerializer ==
  IF shim.given.kind = "none" THEN default_serializer ELSE shim.given

\* C1: for every key k and non-absent value v, once S.put(k, v) has
\* completed and while no later operation names k, the child holds
\* J.dumps(v) under k and S.get(k) is v, J being the serializer S was
\* constructed with.
C1_PutStoresDumpsOfGiven ==
  shim.state = "ok" =>
    \A k \in StoreKeys :
      lastPut[k] # Unset =>
        /\ child_get(child, k) = Dumps(GivenSerializer, lastPut[k])
        /\ get(shim.serializer, child, k) = lastPut[k]

\* C1, with J read as the serializer the shim uses (self.serializer): the
\* same statement then holds; the two differ when the serializer given is
\* an empty Stack, which __init__ takes for "no serializer given".
C1_PutStoresDumpsOfUsed ==
  shim.state = "ok" =>
    \A k \in StoreKeys :
      lastPut[k] # Unset =>
        /\ child_get(child, k) = Dumps(shim.serializer, lastPut[k])
        /\ get(shim.serializer, child, k) = lastPut[k]

C1_Witness ==
  /\ shim.state = "ok" /\ shim.given = Stack(<<>>)
  /\ \E k \in StoreKeys : lastPut[k] = Str(<<"a">>) /\ last.key # k

\* C2: S.delete(k) leaves k absent (contains is false, get is None), raises
\* nothing, changes no other key, and changes nothing when k was absent.
C2_DeleteRemoves ==
  [][\A k \in StoreKeys :
       ShimDelete(k) =>
         /\ ~contains(child', k)
         /\ get(shim'.serializer, child', k) = None
         /\ ~IsRaise(last'.res)
         /\ \A j \in StoreKeys \ {k} : child'[j] = child[j]
         /\ (~contains(child, k) => child' = child)]_vars

C2_Witness == last.op = "delete" /\ last.was /\ ~contains(child, last.key)

\* C3: a query calls serializer.loads zero times, and while its cursor is
\* consumed the calls of loads never exceed the elements requested so far,
\* nor the elements delivered (plus the one whose loads raised).
C3_LazyQuery ==
  cursor.state # "none" =>
    /\ cursor.loads <= cursor.requested
    /\ cursor.loads <= Len(cursor.delivered) + (IF cursor.raised = "" THEN 0 ELSE 1)
    /\ (cursor.requested = 0 => cursor.loads = 0)

C3_Witness ==
  /\ cursor.state = "open"
  /\ Len(cursor.delivered) = 1 /\ Len(cursor.src) = 1
  /\ cursor.loads = 1 /\ cursor.requested = 1

\* loads(dumps(test)) is a value, and differs from the sentinel test value
BrokenRoundTrip(ser) ==
  /\ ser.kind # "none"
  /\ ~IsRaise(Dumps(ser, SentinelTest))
  /\ ~IsRaise(Loads(ser, Dumps(ser, SentinelTest)))
  /\ Loads(ser, Dumps(ser, SentinelTest)) # SentinelTest

\* C4: constructing the shim with a serializer whose loads(dumps(x)) differs
\* from the sentinel x fails with the assertion error; no put or get is made
\* on that shim, and it has made no call on the child datastore.
C4_BrokenSerializerRejected ==
  (shim.state # "none" /\ BrokenRoundTrip(shim.given)) =>
    /\ shim.state = "failed"
    /\ shim.error = "AssertionError"
    /\ last.op \in {"init", "child.put", "child.delete"}
    /\ ~shimTouched

C4_Witness ==
  /\ shim.state = "failed" /\ shim.error = "AssertionError"
  /\ BrokenRoundTrip(shim.given)
  /\ last.op = "init" /\ IsRaise(last.res)

\* every serializer of the Stack undoes its own dumps, on the values of the
\* model and on their serialized forms
RoundTripValues ==
  StackValues \cup {CodecDumps(c, v) : c \in Codecs, v \in StackValues}

RoundTripCorrect(items) ==
  \A i \in 1..Len(items) :
    \A v \in RoundTripValues \ {Raise("TypeError")} :
      ~IsRaise(CodecDumps(items[i].d, v)) =>
        CodecLoads(items[i].l, CodecDumps(items[i].d, v)) = v

\* sn.dumps( ... s2.dumps(s1.dumps(v))): s1 is applied first and sn last
RECURSIVE DumpsLastOutermost(_, _)
DumpsLastOutermost(items, v) ==
  IF items = <<>> THEN v
  ELSE IF IsRaise(DumpsLastOutermost(SubSeq(items, 1, Len(items) - 1), v))
  THEN DumpsLastOutermost(SubSeq(items, 1, Len(items) - 1), v)
  ELSE CodecDumps(items[Len(items)].d,
                  DumpsLastOutermost(SubSeq(items, 1, Len(items) - 1), v))

\* s1.loads(s2.loads( ... sn.loads(x))): sn is applied first and s1 last
RECURSIVE LoadsFirstOutermost(_, _)
LoadsFirstOutermost(items, x) ==
  IF items = <<>> THEN x
  ELSE IF IsRaise(LoadsFirstOutermost(Tail(items), x))
  THEN LoadsFirstOutermost(Tail(items), x)
  ELSE CodecLoads(Head(items).l, LoadsFirstOutermost(Tail(items), x))

\* C5: Stack.dumps applies s1 first and sn last, Stack.loads applies sn first
\* and s1 last; when every serializer of the Stack undoes its own dumps,
\* Stack.loads(Stack.dumps(v)) is v for every v the Stack can serialize; the
\* empty Stack is the identity in both directions.
C5_StackComposition ==
  /\ stackPc # "new" => stackOut = DumpsLastOutermost(stack, stackIn)
  /\ stackPc = "loaded" =>
       /\ stackBack = LoadsFirstOutermost(stack, stackOut)
       /\ RoundTripCorrect(stack) => stackBack = stackIn
       /\ stack = <<>> => stackOut = stackIn /\ stackBack = stackOut

C5_Witness ==
  /\ stackPc = "loaded" /\ Len(stack) = 2 /\ stack[1] # stack[2]
  /\ RoundTripCorrect(stack)
  /\ stackOut # stackIn /\ stackBack = stackIn /\ stackIn.t = "dict"

\* C6: as long as the child is only used through the shim, contains(k) is
\* true exactly when get(k) is not None, also after put(k, None).
C6_ContainsIffGet ==
  (shim.state = "ok" /\ ~directTouched) =>
    \A k \in StoreKeys :
      contains(child, k) <=> get(shim.serializer, child, k) # None

C6_Witness ==
  /\ ~directTouched /\ last.op = "put" /\ last.arg = None /\ last.was
  /\ \E k \in StoreKeys : contains(child, k)

\* C7: the shim keeps no copy: whatever was done through the shim or directly
\* on the child, get(k) is loads of what the child holds now (None when it
\* holds nothing) and contains(k) is the child's contains(k).
C7_ShimReadsThrough ==
  shim.state = "ok" =>
    /\ \A k \in StoreKeys :
         get(shim.serializer, child, k) =
           IF child_contains(child, k)
           THEN Loads(shim.serializer, child_get(child, k)) ELSE None
    /\ last.op = "get" =>
         last.res = IF child_contains(child, last.key)
                    THEN Loads(shim.serializer, child_get(child, last.key))
                    ELSE None
    /\ last.op = "contains" => last.res = Bool(child_contains(child, last.key))

C7_Witness ==
  /\ directTouched /\ last.op = "get" /\ lastPut[last.key] = Unset
  /\ last.res = Str(<<"a">>)

\* the name is one non-empty namespace (separators around it do not count)
SingleSegment(name) == Len(NonEmpty(SplitSlash(name))) = 1

\* C8 (as stated): for all keys k and all child names n, k.child(n).parent
\* is k and k.child(n) sorts strictly after k.
C8_ChildParentAnyName ==
  keyOp = "child" => (Parent(keyB) = keyA /\ KeyLess(keyA, keyB))

\* C8 (amended): for all keys k, the root-like key included, and all child
\* names n that are one non-empty namespace, k.child(n).parent is k and
\* k.child(n) sorts strictly after k.
C8_ChildParentInverse ==
  (keyOp = "child" /\ SingleSegment(keyName)) =>
    (Parent(keyB) = keyA /\ KeyLess(keyA, keyB))

C8_Witness ==
  /\ keyOp = "child" /\ keyA = <<"/">> /\ keyName = <<"a">>
  /\ keyB = <<"/", "a">> /\ Parent(keyB) = keyA

Symmetric(k1, k2) == IsAncestorOf(k1, k2) <=> IsDescendantOf(k2, k1)

Irreflexive(k) == ~IsAncestorOf(k, k) /\ ~IsDescendantOf(k, k)

\* C9 (as stated): is_ancestor_of and is_descendant_of are inverse, no key
\* is its own ancestor or descendant, and k is an ancestor of k.child(n) for
\* every key k and name n.
C9_AncestryAnyChild ==
  /\ Symmetric(keyA, keyB) /\ Symmetric(keyB, keyA)
  /\ Irreflexive(keyA) /\ Irreflexive(keyB)
  /\ keyOp = "child" => IsAncestorOf(keyA, keyB)

\* C9 (amended): is_ancestor_of and is_descendant_of are inverse, no key is
\* its own ancestor or descendant, and k is an ancestor of k.child(n) for
\* every key k other than the root-like key and every name n that holds a
\* character other than the separator.
C9_Ancestry ==
  /\ Symmetric(keyA, keyB) /\ Symmetric(keyB, keyA)
  /\ Irreflexive(keyA) /\ Irreflexive(keyB)
  /\ (keyOp = "child" /\ keyA # Key(<<>>) /\ NonEmpty(SplitSlash(keyName)) # <<>>)
       => (IsAncestorOf(keyA, keyB) /\ IsDescendantOf(keyB, keyA))

C9_Witness ==
  /\ keyOp = "child" /\ keyA = <<"/", "a">> /\ keyName = <<"b">>
  /\ IsAncestorOf(keyA, keyB) /\ ~IsAncestorOf(keyB, keyA)

\* C10: a put whose dumps raises propagates the exception and leaves the
\* child unchanged; a get or a cursor advance whose loads raises propagates
\* the exception, leaves the child unchanged and, for the cursor, leaves the
\* elements already delivered as they were.
C10_ErrorsPropagate ==
  [][/\ \A k \in StoreKeys, v \in QueryValues :
          (ShimPut(k, v) /\ IsRaise(Dumps(shim.serializer, v))) =>
            /\ child' = child /\ cursor' = cursor
            /\ last'.res = Dumps(shim.serializer, v)
     /\ \A k \in StoreKeys :
          (ShimGet(k) /\ child[k] # None
             /\ IsRaise(Loads(shim.serializer, child[k]))) =>
            /\ child' = child /\ cursor' = cursor
            /\ last'.res = Loads(shim.serializer, child[k])
     /\ (CursorNext /\ cursor.src # <<>>
           /\ IsRaise(Loads(shim.serializer, Head(cursor.src)))) =>
          /\ child' = child
          /\ cursor'.delivered = cursor.delivered
          /\ cursor'.raised = Loads(shim.serializer, Head(cursor.src)).e
    ]_vars

C10_Witness ==
  /\ last.op = "put" /\ IsRaise(last.res) /\ contains(child, last.key)
  /\ cursor.raised # "" /\ Len(cursor.delivered) = 1

=============================================================================
